---- MODULE Spec2Model ----
(***************************************************************************)
(* A model of src/main.py: the dependabot alert batch job.                 *)
(*                                                                         *)
(* main() runs generate_raw_alerts_table (paginated extraction from the    *)
(* remote API into the checkpoint outputs/raw_alerts.csv, skipped when the *)
(* checkpoint exists) and then generate_processed_alert_tables (the SQL    *)
(* aggregation of the checkpoint into the report files).                   *)
(*                                                                         *)
(* The remote API is the environment: `org` is what the organisation       *)
(* holds, `failing` the requests it answers with a non-200 status.         *)
(* A nullable value (a JSON null, an empty CSV cell, a SQL NULL) is the    *)
(* empty sequence None; a present value v is <<v>>.  Repository names,     *)
(* advisory ids and timestamps are integers.                               *)
(***************************************************************************)
EXTENDS Integers, Sequences, FiniteSets, TLC

VARIABLES
    org,            \* remote: sequence of [name, archived, alerts]
    failing,        \* remote: set of [ep, repo, page, status], requests answered non-200
    changed,        \* the remote has changed since the first run (it does so at most once)
    rawExists,      \* os.path.exists("outputs/raw_alerts.csv")
    rawFile,        \* contents of outputs/raw_alerts.csv: [header, lines]
    reports,        \* the report files written by the aggregation
    pc,             \* position of the process
    run,            \* number of runs of main() started
    page,           \* local `page` of the paginated call in progress
    repos,          \* local `repos` of list_repositories_in_organisation
    repositories,   \* local `repositories` of generate_raw_alerts_table
    i,              \* index of the for loop over repositories (1-based)
    repoAlerts,     \* local `alerts` of get_dependabot_alerts_from_repository
    alerts,         \* local `alerts` of generate_raw_alerts_table
    df,             \* the projected DataFrame handed to the SQL engine
    reqs,           \* requests issued by the paginated call in progress
    netCalls,       \* HTTP requests issued so far, over all runs
    attempted,      \* repositories handed to the fetcher in this run, in order
    caught,         \* the errors caught (and printed) by the for loop in this run
    ret,            \* the outcome of the last paginated call that ended
    exits           \* how each run of main() ended, in order

vars == <<org, failing, changed, rawExists, rawFile, reports, pc, run, page, repos,
          repositories, i, repoAlerts, alerts, df, reqs, netCalls, attempted,
          caught, ret, exits>>

----------------------------------------------------------------------------
(* Bounds of the model *)

MaxRepos == 2
MaxAlerts == 1
MaxFaults == 1
MaxRuns == 2
MaxItems == 201
MaxAggAlerts == 2

(* per_page of the two endpoints *)
PerPageAlerts == 100
PerPageRepos == 100

None == <<>>
Some(v) == <<v>>

Range(s) == {s[k] : k \in DOMAIN s}

Min(a, b) == IF a < b THEN a ELSE b

----------------------------------------------------------------------------
(* The remote API *)

Reason(status) ==
    CASE status = 200 -> "OK"
      [] status = 403 -> "Forbidden"
      [] OTHER -> "Internal Server Error"

(* The status the remote answers a request with *)
StatusOf(ep, repo, p) ==
    LET hit == {f \in failing : f.ep = ep /\ f.repo = repo /\ f.page = p}
    IN  IF hit = {} THEN 200 ELSE (CHOOSE f \in hit : TRUE).status

(* page p of a listing served per_page items a page *)
PageOf(items, p, per_page) ==
    SubSeq(items, (p - 1) * per_page + 1, Min(p * per_page, Len(items)))

(* the alerts the remote holds for a repository (names are unique) *)
RemoteAlerts(repo) ==
    LET ks == {k \in 1..Len(org) : org[k].name = repo}
    IN  IF ks = {} THEN <<>> ELSE org[CHOOSE k \in ks : TRUE].alerts

(* GET /orgs/{org}/repos?page={page}&per_page=100 *)
GetRepos(p) ==
    LET status == StatusOf("repos", 0, p)
    IN  [status_code |-> status, reason |-> Reason(status),
         json |-> IF status = 200
                  THEN PageOf([k \in 1..Len(org) |->
                                 [name |-> org[k].name, archived |-> org[k].archived]],
                              p, PerPageRepos)
                  ELSE <<>>]

(* GET /repos/{org}/{repo}/dependabot/alerts?page={page}&per_page=100 *)
GetAlerts(repo, p) ==
    LET status == StatusOf("alerts", repo, p)
    IN  [status_code |-> status, reason |-> Reason(status),
         json |-> IF status = 200 THEN PageOf(RemoteAlerts(repo), p, PerPageAlerts)
                  ELSE <<>>]

(* An alert as the API serves it *)
MkAlert(n, st, dis, sev, g, t) ==
    [number |-> n, state |-> st, created_at |-> t, fixed_at |-> None,
     dismissed_at |-> dis, dismissed_by |-> None, dismissed_reason |-> None,
     dismissed_comment |-> None, url |-> n,
     security_advisory |-> [summary |-> g, ghsa_id |-> g, severity |-> sev]]

----------------------------------------------------------------------------
(* Extraction: tagging, flattening, the checkpoint file *)

(* alert["repository"] = repo *)
Tag(alert, repo) == [repository |-> repo] @@ alert

(* The columns pd.json_normalize gives a tagged alert *)
FlatColumns ==
    <<"number", "state", "created_at", "fixed_at", "dismissed_at", "dismissed_by",
      "dismissed_reason", "dismissed_comment", "url", "security_advisory.summary",
      "security_advisory.ghsa_id", "security_advisory.severity", "repository">>

Flatten(a) ==
    ("number" :> Some(a.number)) @@ ("state" :> Some(a.state)) @@
    ("created_at" :> Some(a.created_at)) @@ ("fixed_at" :> a.fixed_at) @@
    ("dismissed_at" :> a.dismissed_at) @@ ("dismissed_by" :> a.dismissed_by) @@
    ("dismissed_reason" :> a.dismissed_reason) @@
    ("dismissed_comment" :> a.dismissed_comment) @@ ("url" :> Some(a.url)) @@
    ("security_advisory.summary" :> Some(a.security_advisory.summary)) @@
    ("security_advisory.ghsa_id" :> Some(a.security_advisory.ghsa_id)) @@
    ("security_advisory.severity" :> a.security_advisory.severity) @@
    ("repository" :> Some(a.repository))

(* a frame that has the alert columns even when there is no record *)
FixedColumns(recs) ==
    [columns |-> FlatColumns, rows |-> [k \in 1..Len(recs) |-> Flatten(recs[k])]]

(* pd.json_normalize(alerts): no records give a frame with no columns *)
JsonNormalize(recs) ==
    [columns |-> IF recs = <<>> THEN <<>> ELSE FlatColumns,
     rows |-> [k \in 1..Len(recs) |-> Flatten(recs[k])]]

(* df.to_csv(path, index=False): a header line and one line of cells a row *)
ToCsv(frame) ==
    [header |-> frame.columns,
     lines |-> [r \in 1..Len(frame.rows) |->
                  [c \in 1..Len(frame.columns) |-> frame.rows[r][frame.columns[c]]]]]

EmptyFile == [header |-> <<>>, lines |-> <<>>]

(* pd.read_csv(path): a file with no header has no columns to parse *)
ReadCsv(file) ==
    IF file.header = <<>>
    THEN [error |-> Some("EmptyDataError"), frame |-> [columns |-> <<>>, rows |-> <<>>]]
    ELSE [error |-> None,
          frame |-> [columns |-> file.header,
                     rows |-> [r \in 1..Len(file.lines) |->
                                 [c \in Range(file.header) |->
                                    file.lines[r][CHOOSE k \in 1..Len(file.header) :
                                                    file.header[k] = c]]]]]

(* The column list of df[[...]] *)
ExpectedColumns ==
    <<"repository", "number", "state", "created_at", "fixed_at", "dismissed_at",
      "dismissed_by", "dismissed_reason", "dismissed_comment",
      "security_advisory.summary", "security_advisory.ghsa_id",
      "security_advisory.severity", "url">>

(* df[[...]]: a KeyError when a listed column is missing *)
Project(frame, cols) ==
    IF Range(cols) \subseteq Range(frame.columns)
    THEN [error |-> None,
          frame |-> [columns |-> cols,
                     rows |-> [r \in 1..Len(frame.rows) |->
                                 [c \in Range(cols) |-> frame.rows[r][c]]]]]
    ELSE [error |-> Some("KeyError"), frame |-> [columns |-> <<>>, rows |-> <<>>]]

----------------------------------------------------------------------------
(* Aggregation: the SQL statements of generate_processed_alert_tables *)

(* df.rename(columns={...}) *)
RenameColumn(c) ==
    CASE c = "security_advisory.summary" -> "summary"
      [] c = "security_advisory.ghsa_id" -> "ghsa_id"
      [] c = "security_advisory.severity" -> "severity"
      [] OTHER -> c

Rename(frame) ==
    [columns |-> [k \in 1..Len(frame.columns) |-> RenameColumn(frame.columns[k])],
     rows |-> [r \in 1..Len(frame.rows) |->
                 [c \in {RenameColumn(x) : x \in Range(frame.columns)} |->
                    frame.rows[r][CHOOSE x \in Range(frame.columns) : RenameColumn(x) = c]]]]

(* The columns of CREATE TABLE alerts *)
TableColumns ==
    <<"repository", "number", "state", "created_at", "fixed_at", "dismissed_at",
      "dismissed_by", "dismissed_reason", "dismissed_comment", "summary", "ghsa_id",
      "severity", "url">>

(* INSERT INTO alerts SELECT * FROM df: by position *)
InsertFrom(frame) ==
    [r \in 1..Len(frame.rows) |->
       [c \in Range(TableColumns) |->
          frame.rows[r][frame.columns[CHOOSE k \in 1..Len(TableColumns) :
                                        TableColumns[k] = c]]]]

(* SQL comparisons of a nullable cell with a literal: NULL when the cell is NULL *)
SqlEq(cell, lit) == IF cell = None THEN None ELSE Some(cell[1] = lit)
SqlNeq(cell, lit) == IF cell = None THEN None ELSE Some(cell[1] # lit)
SqlGt(cell, lit) == IF cell = None THEN None ELSE Some(cell[1] > lit)
(* A WHERE clause keeps the rows whose predicate is true, not NULL *)
IsTrue(b) == b = Some(TRUE)
Coalesce(cell, v) == IF cell = None THEN Some(v) ELSE cell

(* a table whose states are left as reported *)
NoUpdate(t) == t

(* UPDATE alerts SET state = 'dismissed' WHERE dismissed_at IS NOT NULL *)
UpdateDismissed(t) ==
    [r \in 1..Len(t) |->
       IF t[r].dismissed_at # None THEN [t[r] EXCEPT !.state = Some("dismissed")]
       ELSE t[r]]

(* the predicate of DELETE FROM alerts WHERE severity != 'critical' *)
DeleteWhere(row) == IsTrue(SqlNeq(row.severity, "critical"))

DeleteNonCritical(t) == SelectSeq(t, LAMBDA row : ~DeleteWhere(row))

(* ALTER TABLE alerts DROP COLUMN severity *)
DropSeverity(t) ==
    [r \in 1..Len(t) |-> [c \in DOMAIN t[r] \ {"severity"} |-> t[r][c]]]

CriticalColumns == SelectSeq(TableColumns, LAMBDA c : c # "severity")

(* the key of ORDER BY col DESC: NULLs sort last *)
OrderKey(cell) == IF cell = None THEN -1 ELSE cell[1]

RECURSIVE InsertDesc(_, _, _)
InsertDesc(sorted, row, col) ==
    IF sorted = <<>> THEN <<row>>
    ELSE IF OrderKey(Head(sorted)[col]) >= OrderKey(row[col])
         THEN <<Head(sorted)>> \o InsertDesc(Tail(sorted), row, col)
         ELSE <<row>> \o sorted

(* ORDER BY col DESC *)
RECURSIVE OrderByDesc(_, _)
OrderByDesc(rows, col) ==
    IF rows = <<>> THEN <<>>
    ELSE InsertDesc(OrderByDesc(SubSeq(rows, 1, Len(rows) - 1), col), rows[Len(rows)], col)

(* the distinct values of a sequence, in order of first appearance *)
Distinct(s) ==
    LET first == SelectSeq([k \in 1..Len(s) |-> k],
                           LAMBDA k : \A j \in 1..(k - 1) : s[j] # s[k])
    IN  [n \in 1..Len(first) |-> s[first[n]]]

(* SELECT repository, state, COUNT as count FROM alerts GROUP BY repository, state *)
GroupCount(t) ==
    LET keys == Distinct([r \in 1..Len(t) |-> <<t[r].repository, t[r].state>>])
    IN  [g \in 1..Len(keys) |->
           [repository |-> keys[g][1], state |-> keys[g][2],
            count |-> Cardinality({r \in 1..Len(t) :
                                     <<t[r].repository, t[r].state>> = keys[g]})]]

RECURSIVE SumCounts(_)
SumCounts(groups) ==
    IF groups = <<>> THEN 0 ELSE Head(groups).count + SumCounts(Tail(groups))

(* SUM(count) over the groups of one repository and one state: NULL over no group *)
PivotSum(groups, repository, state) ==
    LET sel == SelectSeq(groups, LAMBDA g : g.repository = repository
                                            /\ IsTrue(SqlEq(g.state, state)))
    IN  IF sel = <<>> THEN None ELSE Some(SumCounts(sel))

(* PIVOT (SUM(count) FOR state IN ('open', 'dismissed', 'fixed')) ORDER BY open DESC *)
CriticalAlertCount(t) ==
    LET groups == GroupCount(t)
        names == Distinct([g \in 1..Len(groups) |-> groups[g].repository])
    IN  OrderByDesc([k \in 1..Len(names) |->
                       [repository |-> names[k],
                        open |-> PivotSum(groups, names[k], "open"),
                        dismissed |-> PivotSum(groups, names[k], "dismissed"),
                        fixed |-> PivotSum(groups, names[k], "fixed")]],
                    "open")

(* select repository, COALESCE(state, 0) from critical_alert_count
   where state > 0 ORDER BY state DESC *)
StateReport(counts, state) ==
    LET kept == SelectSeq(counts, LAMBDA row : IsTrue(SqlGt(row[state], 0)))
    IN  [header |-> <<"repository", state>>,
         rows |-> OrderByDesc([k \in 1..Len(kept) |->
                                 ("repository" :> kept[k].repository) @@
                                 (state :> Coalesce(kept[k][state], 0))],
                              state)]

(* select repository, COALESCE(open, 0), COALESCE(dismissed, 0), COALESCE(fixed, 0)
   from critical_alert_count ORDER BY open DESC *)
AllReport(counts) ==
    [header |-> <<"repository", "open", "dismissed", "fixed">>,
     rows |-> OrderByDesc([k \in 1..Len(counts) |->
                             [repository |-> counts[k].repository,
                              open |-> Coalesce(counts[k].open, 0),
                              dismissed |-> Coalesce(counts[k].dismissed, 0),
                              fixed |-> Coalesce(counts[k].fixed, 0)]],
                          "open")]

(* max(created_at): the largest non-NULL value, NULL when there is none *)
MaxCell(cells) ==
    LET vals == {c[1] : c \in {x \in cells : x # None}}
    IN  IF vals = {} THEN None ELSE Some(CHOOSE v \in vals : \A w \in vals : w <= v)

(* select max(created_at) as created_at, ghsa_id from alerts where state = 'open'
   group by ghsa_id ORDER BY created_at DESC *)
AlertsByDate(t) ==
    LET open == SelectSeq(t, LAMBDA row : IsTrue(SqlEq(row.state, "open")))
        ids == Distinct([r \in 1..Len(open) |-> open[r].ghsa_id])
    IN  [header |-> <<"created_at", "ghsa_id">>,
         rows |-> OrderByDesc([k \in 1..Len(ids) |->
                                 [created_at |-> MaxCell({open[r].created_at :
                                                           r \in {x \in 1..Len(open) :
                                                                   open[x].ghsa_id = ids[k]}}),
                                  ghsa_id |-> ids[k]]],
                              "created_at")]

(* The table `alerts` after the UPDATE, the DELETE and the DROP COLUMN *)
CriticalTable(frame) ==
    DropSeverity(DeleteNonCritical(UpdateDismissed(InsertFrom(frame))))

(* Every report file the aggregation writes, from the projected frame *)
Reports(frame) ==
    LET t == CriticalTable(Rename(frame))
        counts == CriticalAlertCount(t)
    IN  [critical_alerts |-> [header |-> CriticalColumns, rows |-> t],
         open_critical_alert_count |-> StateReport(counts, "open"),
         dismissed_critical_alert_count |-> StateReport(counts, "dismissed"),
         fixed_critical_alert_count |-> StateReport(counts, "fixed"),
         all_critical_alert_count |-> AllReport(counts),
         alerts_by_date |-> AlertsByDate(t)]

NoReports ==
    LET none == [header |-> <<>>, rows |-> <<>>]
    IN  [critical_alerts |-> none, open_critical_alert_count |-> none,
         dismissed_critical_alert_count |-> none, fixed_critical_alert_count |-> none,
         all_critical_alert_count |-> none, alerts_by_date |-> none]

----------------------------------------------------------------------------
(* The process *)

NoRet == [fn |-> "none", repo |-> 0, requests |-> 0, items |-> <<>>, error |-> None]
NoFrame == [columns |-> <<>>, rows |-> <<>>]

(* an exception that carries neither status nor reason *)
BareError(response) == [type |-> "Exception", status |-> 0, reason |-> ""]

(* raise Exception(f"API call failed with status code {status_code}, {reason}"),
   of the lister and of the fetcher alike *)
RequestError(response) ==
    [type |-> "Exception", status |-> response.status_code, reason |-> response.reason]

(* a run that never finds the checkpoint *)
CheckpointNever == FALSE

(* os.path.exists("outputs/raw_alerts.csv") *)
CheckpointExists == rawExists

(* a loop that stops at the first page shorter than per_page *)
ShortPageOfRepos(page_repos) == Len(page_repos) < PerPageRepos

(* `if not page_repos: break` *)
NoMoreRepos(page_repos) == page_repos = <<>>

(* `if not page_alerts: break` *)
NoMoreAlerts(page_alerts) == page_alerts = <<>>

(* the names of a page without the archived filter *)
AllNames(page_repos) == [k \in 1..Len(page_repos) |-> page_repos[k].name]

(* [repo["name"] for repo in page_repos if not repo["archived"]] *)
ActiveNames(page_repos) ==
    LET kept == SelectSeq(page_repos, LAMBDA repo : ~repo.archived)
    IN  [k \in 1..Len(kept) |-> kept[k].name]

(* for alert in page_alerts: alert["repository"] = repo *)
TagAll(page_alerts, repo) ==
    [k \in 1..Len(page_alerts) |-> Tag(page_alerts[k], repo)]

(* a handler that keeps the pages fetched before the failure *)
KeepPartial(collected, partial) == collected \o partial

(* what the for loop's `alerts` gains from a call of the fetcher that raised:
   alerts.extend is never reached *)
AfterRaise(collected, partial) == collected

(* main(): a run starts; the locals of the run are fresh *)
Main ==
    /\ pc = "idle"
    /\ run < MaxRuns
    /\ run' = run + 1
    /\ pc' = "extract"
    /\ page' = 0 /\ repos' = <<>> /\ repositories' = <<>> /\ i' = 0
    /\ repoAlerts' = <<>> /\ alerts' = <<>> /\ df' = NoFrame /\ reqs' = 0
    /\ attempted' = <<>> /\ caught' = <<>> /\ ret' = NoRet
    /\ UNCHANGED <<org, failing, changed, rawExists, rawFile, reports, netCalls, exits>>

(* generate_raw_alerts_table: skip when the checkpoint exists, else call the lister *)
GenerateRawAlertsTable ==
    /\ pc = "extract"
    /\ IF CheckpointExists
       THEN pc' = "agg" /\ UNCHANGED <<page, repos, reqs>>
       ELSE pc' = "list" /\ page' = 1 /\ repos' = <<>> /\ reqs' = 0
    /\ UNCHANGED <<org, failing, changed, rawExists, rawFile, reports, run, repositories,
                   i, repoAlerts, alerts, df, netCalls, attempted, caught, ret, exits>>

(* one iteration of the while loop of list_repositories_in_organisation *)
ListPage ==
    /\ pc = "list"
    /\ LET response == GetRepos(page)
       IN  /\ netCalls' = netCalls + 1
           /\ reqs' = reqs + 1
           /\ IF response.status_code = 200
              THEN IF NoMoreRepos(response.json)
                   THEN /\ repositories' = repos
                        /\ ret' = [fn |-> "list", repo |-> 0, requests |-> reqs + 1,
                                   items |-> repos, error |-> None]
                        /\ i' = 1 /\ alerts' = <<>>
                        /\ pc' = "loop"
                        /\ UNCHANGED <<page, repos, exits>>
                   ELSE /\ repos' = repos \o ActiveNames(response.json)
                        /\ page' = page + 1
                        /\ UNCHANGED <<repositories, ret, i, alerts, pc, exits>>
              ELSE /\ ret' = [fn |-> "list", repo |-> 0, requests |-> reqs + 1,
                              items |-> <<>>, error |-> Some(RequestError(response))]
                   /\ exits' = Append(exits, [status |-> "failed", phase |-> "list",
                                              error |-> RequestError(response)])
                   /\ pc' = "idle"
                   /\ UNCHANGED <<page, repos, repositories, i, alerts>>
    /\ UNCHANGED <<org, failing, changed, rawExists, rawFile, reports, run, repoAlerts,
                   df, attempted, caught>>

(* for i, repo in enumerate(repositories): the next call of the fetcher, or the end *)
ForRepo ==
    /\ pc = "loop"
    /\ IF i <= Len(repositories)
       THEN /\ attempted' = Append(attempted, repositories[i])
            /\ page' = 1 /\ repoAlerts' = <<>> /\ reqs' = 0
            /\ pc' = "fetch"
       ELSE /\ pc' = "write"
            /\ UNCHANGED <<attempted, page, repoAlerts, reqs>>
    /\ UNCHANGED <<org, failing, changed, rawExists, rawFile, reports, run, repos,
                   repositories, i, alerts, df, netCalls, caught, ret, exits>>

(* one iteration of the while loop of get_dependabot_alerts_from_repository, with
   the try/except of the caller around it *)
FetchPage ==
    /\ pc = "fetch"
    /\ LET repo == repositories[i]
           response == GetAlerts(repo, page)
       IN  /\ netCalls' = netCalls + 1
           /\ reqs' = reqs + 1
           /\ IF response.status_code = 200
              THEN IF NoMoreAlerts(response.json)
                   THEN /\ alerts' = alerts \o repoAlerts
                        /\ ret' = [fn |-> "fetch", repo |-> repo, requests |-> reqs + 1,
                                   items |-> repoAlerts, error |-> None]
                        /\ i' = i + 1
                        /\ pc' = "loop"
                        /\ UNCHANGED <<page, repoAlerts, caught>>
                   ELSE /\ repoAlerts' = repoAlerts \o TagAll(response.json, repo)
                        /\ page' = page + 1
                        /\ UNCHANGED <<alerts, ret, i, pc, caught>>
              ELSE /\ alerts' = AfterRaise(alerts, repoAlerts)
                   /\ ret' = [fn |-> "fetch", repo |-> repo, requests |-> reqs + 1,
                              items |-> <<>>, error |-> Some(RequestError(response))]
                   /\ caught' = Append(caught, [i |-> i - 1, repo |-> repo,
                                                error |-> RequestError(response)])
                   /\ i' = i + 1
                   /\ pc' = "loop"
                   /\ UNCHANGED <<page, repoAlerts>>
    /\ UNCHANGED <<org, failing, changed, rawExists, rawFile, reports, run, repos,
                   repositories, df, attempted, exits>>

(* df = pd.json_normalize(alerts); df.to_csv("outputs/raw_alerts.csv", index=False) *)
WriteCheckpoint ==
    /\ pc = "write"
    /\ rawFile' = ToCsv(JsonNormalize(alerts))
    /\ rawExists' = TRUE
    /\ pc' = "agg"
    /\ UNCHANGED <<org, failing, changed, reports, run, page, repos, repositories, i,
                   repoAlerts, alerts, df, reqs, netCalls, attempted, caught, ret, exits>>

(* pd.read_csv and df[[...]] of generate_processed_alert_tables *)
LoadFrame ==
    IF ~rawExists THEN [error |-> Some("FileNotFoundError"), frame |-> NoFrame]
    ELSE LET read == ReadCsv(rawFile)
         IN  IF read.error # None THEN read ELSE Project(read.frame, ExpectedColumns)

LoadRaw ==
    /\ pc = "agg"
    /\ LET loaded == LoadFrame
       IN  IF loaded.error = None
           THEN /\ df' = loaded.frame
                /\ pc' = "sql"
                /\ UNCHANGED exits
           ELSE /\ exits' = Append(exits, [status |-> "failed", phase |-> "agg",
                                           error |-> [type |-> loaded.error[1]]])
                /\ pc' = "idle"
                /\ UNCHANGED df
    /\ UNCHANGED <<org, failing, changed, rawExists, rawFile, reports, run, page, repos,
                   repositories, i, repoAlerts, alerts, reqs, netCalls, attempted,
                   caught, ret>>

(* the rename, the SQL statements and the COPY ... TO of every report *)
WriteReports ==
    /\ pc = "sql"
    /\ reports' = Reports(df)
    /\ exits' = Append(exits, [status |-> "ok", phase |-> "agg", error |-> [type |-> "none"]])
    /\ pc' = "idle"
    /\ UNCHANGED <<org, failing, changed, rawExists, rawFile, run, page, repos,
                   repositories, i, repoAlerts, alerts, df, reqs, netCalls, attempted,
                   caught, ret>>

(* An alert of the orchestration worlds: open, critical, advisory g *)
PlainAlert(n, g) == MkAlert(n, "open", None, Some("critical"), g, n)

(* The remote between two runs: the failing requests heal, a repository gains an
   alert, or a repository is archived or unarchived *)
ChangedRemotes ==
    (IF failing = {} THEN {} ELSE {<<org, {}>>})
    \cup {<<[org EXCEPT ![k].alerts =
                Append(@, PlainAlert(Len(@) + 1, org[k].name))], failing>> :
            k \in 1..Len(org)}
    \cup {<<[org EXCEPT ![k].archived = ~@], failing>> : k \in 1..Len(org)}

RemoteChange ==
    /\ pc = "idle"
    /\ run >= 1
    /\ run < MaxRuns
    /\ ~changed
    /\ changed' = TRUE
    /\ \E w \in ChangedRemotes : org' = w[1] /\ failing' = w[2]
    /\ UNCHANGED <<rawExists, rawFile, reports, pc, run, page, repos, repositories, i,
                   repoAlerts, alerts, df, reqs, netCalls, attempted, caught, ret, exits>>

NextRun ==
    \/ Main
    \/ GenerateRawAlertsTable
    \/ ListPage
    \/ ForRepo
    \/ FetchPage
    \/ WriteCheckpoint
    \/ LoadRaw
    \/ WriteReports

Next == NextRun \/ RemoteChange

----------------------------------------------------------------------------
(* Initial states: nothing on disk, no run started, and a remote *)

InitLocal ==
    /\ changed = FALSE
    /\ rawExists = FALSE /\ rawFile = EmptyFile /\ reports = NoReports
    /\ pc = "idle" /\ run = 0
    /\ page = 0 /\ repos = <<>> /\ repositories = <<>> /\ i = 0
    /\ repoAlerts = <<>> /\ alerts = <<>> /\ df = NoFrame /\ reqs = 0
    /\ netCalls = 0 /\ attempted = <<>> /\ caught = <<>> /\ ret = NoRet
    /\ exits = <<>>

(* Small organisations: up to maxRepos repositories named 1.., archived or not,
   each with up to maxAlerts alerts *)
SmallOrgs(maxRepos, maxAlerts) ==
    UNION {{[j \in 1..k |-> [name |-> j, archived |-> a[j],
                             alerts |-> [m \in 1..n[j] |-> PlainAlert(m, j)]]] :
              a \in [1..k -> BOOLEAN], n \in [1..k -> 0..maxAlerts]} :
           k \in 0..maxRepos}

FaultSites(o) ==
    {[ep |-> "repos", repo |-> 0, page |-> p, status |-> s] :
       p \in 1..2, s \in {403, 500}}
    \cup {[ep |-> "alerts", repo |-> o[k].name, page |-> p, status |-> s] :
            k \in 1..Len(o), p \in 1..2, s \in {403, 500}}

SameSite(f, g) == f.ep = g.ep /\ f.repo = g.repo /\ f.page = g.page

RECURSIVE FaultSets(_, _)
FaultSets(o, n) ==
    IF n = 0 THEN {{}}
    ELSE LET less == FaultSets(o, n - 1)
         IN  less \cup {F \cup {f} : F \in less,
                                     f \in FaultSites(o)}

Faults(o) ==
    {F \in FaultSets(o, MaxFaults) :
       \A f \in F, g \in F : SameSite(f, g) => f = g}

Init ==
    /\ InitLocal
    /\ org \in SmallOrgs(MaxRepos, MaxAlerts)
    /\ failing \in Faults(org)

Spec == Init /\ [][Next]_vars

----------------------------------------------------------------------------
(* Large listings: an organisation of N repositories without alerts, archived by
   one of a few patterns, or one repository with N alerts; every request
   succeeds *)

ArchivedBy(pattern, j) ==
    CASE pattern = "none" -> FALSE
      [] pattern = "all" -> TRUE
      [] pattern = "first_page" -> j <= PerPageRepos
      [] OTHER -> j % 2 = 0

ManyRepos(maxItems) ==
    {[j \in 1..n |-> [name |-> j, archived |-> ArchivedBy(pattern, j), alerts |-> <<>>]] :
       n \in 0..maxItems, pattern \in {"none", "all", "first_page", "even"}}

ManyAlerts(maxItems) ==
    {<<[name |-> 1, archived |-> FALSE,
        alerts |-> [m \in 1..n |-> PlainAlert(m, 1)]]>> : n \in 0..maxItems}

InitPaging ==
    /\ InitLocal
    /\ org \in ManyRepos(MaxItems) \cup ManyAlerts(MaxItems)
    /\ failing = {}

SpecPaging == InitPaging /\ [][NextRun]_vars

----------------------------------------------------------------------------
(* Varied alerts: one or two repositories whose alerts vary in state,
   dismissed_at and severity, or one repository whose alerts vary in advisory and
   creation time too; every request succeeds *)

StateKinds ==
    <<[state |-> "open", dismissed_at |-> None],
      [state |-> "open", dismissed_at |-> Some(9)],
      [state |-> "fixed", dismissed_at |-> None],
      [state |-> "fixed", dismissed_at |-> Some(9)],
      [state |-> "dismissed", dismissed_at |-> Some(9)]>>

(* critical, another severity, or none (a JSON null, an empty cell of the checkpoint) *)
Severities == <<Some("critical"), Some("high"), None>>

(* kind k of 1..15 at position n: a state kind and a severity *)
CountKinds == Len(StateKinds) * Len(Severities)
CountAlert(k, n) ==
    LET sk == StateKinds[((k - 1) % Len(StateKinds)) + 1]
        sev == Severities[((k - 1) \div Len(StateKinds)) + 1]
    IN  MkAlert(n, sk.state, sk.dismissed_at, sev, 1, n)

(* kind k of 1..24: a state kind of the first three, critical or no severity, one of
   two advisories, one of two creation times *)
DateKinds == 3 * 2 * 2 * 2
DateAlert(k, n) ==
    LET sk == StateKinds[((k - 1) % 3) + 1]
        sev == IF ((k - 1) \div 3) % 2 = 0 THEN Some("critical") ELSE None
        g == (((k - 1) \div 6) % 2) + 1
        t == (((k - 1) \div 12) % 2) + 1
    IN  MkAlert(n, sk.state, sk.dismissed_at, sev, g, t)

(* the lists of n kinds in ascending order: a repository's alerts are served in
   order of kind *)
RECURSIVE KindLists(_, _)
KindLists(kinds, n) ==
    IF n = 0 THEN {<<>>}
    ELSE UNION {{Append(s, k) : k \in (IF s = <<>> THEN 1 ELSE s[Len(s)])..kinds} :
                s \in KindLists(kinds, n - 1)}

CountOrgs(maxAlerts) ==
    UNION {UNION {{<<[name |-> 1, archived |-> FALSE,
                      alerts |-> [m \in 1..n1 |-> CountAlert(s1[m], m)]],
                     [name |-> 2, archived |-> FALSE,
                      alerts |-> [m \in 1..n2 |-> CountAlert(s2[m], m)]]>> :
                     s1 \in KindLists(CountKinds, n1), s2 \in KindLists(CountKinds, n2)} :
                  n2 \in 0..(maxAlerts - n1)} :
           n1 \in 0..maxAlerts}

DateOrgs(maxAlerts) ==
    UNION {{<<[name |-> 1, archived |-> FALSE,
               alerts |-> [m \in 1..n |-> DateAlert(s[m], m)]]>> :
              s \in KindLists(DateKinds, n)} :
           n \in 0..maxAlerts}

InitAgg ==
    /\ InitLocal
    /\ org \in CountOrgs(MaxAggAlerts) \cup DateOrgs(MaxAggAlerts)
    /\ failing = {}

SpecAgg == InitAgg /\ [][NextRun]_vars

----------------------------------------------------------------------------
(* Properties *)

CeilDiv(a, b) == (a + b - 1) \div b

(* the remote's non-archived repository names, in listing order *)
ActiveOfOrg ==
    LET live == SelectSeq(org, LAMBDA r : r.archived = FALSE)
    IN  [k \in 1..Len(live) |-> live[k].name]

(* the last paginated call returned without an error *)
Returned(fn) == ret.fn = fn /\ ret.error = None

(* C1 as stated: when every request succeeds, a paginated loop over N items issues
   exactly ceil((N+1)/100) page requests and collects exactly N items. *)
C1_Original ==
    /\ Returned("list") =>
         /\ ret.requests = CeilDiv(Len(org) + 1, 100)
         /\ Len(ret.items) = Len(org)
    /\ Returned("fetch") =>
         /\ ret.requests = CeilDiv(Len(RemoteAlerts(ret.repo)) + 1, 100)
         /\ Len(ret.items) = Len(RemoteAlerts(ret.repo))

(* C1 amended: when every request succeeds, a paginated loop over N items issues
   exactly ceil(N/100) + 1 page requests (the non-empty pages and one empty page that
   ends the loop); the alert fetcher collects exactly N items and the repository lister
   exactly the non-archived ones among the N (N when none is archived). *)
C1_Pagination ==
    /\ Returned("list") =>
         /\ ret.requests = CeilDiv(Len(org), 100) + 1
         /\ Len(ret.items) = Cardinality({k \in 1..Len(org) : ~org[k].archived})
    /\ Returned("fetch") =>
         /\ ret.requests = CeilDiv(Len(RemoteAlerts(ret.repo)), 100) + 1
         /\ Len(ret.items) = Len(RemoteAlerts(ret.repo))

(* a fetch of 101 alerts returned after three requests *)
C1_Witness ==
    /\ Returned("fetch")
    /\ Len(RemoteAlerts(ret.repo)) = 101
    /\ ret.requests = 3
    /\ Len(ret.items) = 101

(* C9: when every page request succeeds, the lister returns exactly the names of the
   non-archived repositories of the organisation, over all pages, and no archived
   repository is ever handed to the alert fetcher. *)
C9_NonArchivedExactly ==
    /\ Returned("list") => ret.items = ActiveOfOrg
    /\ pc \in {"loop", "fetch", "write"} => repositories = ActiveOfOrg
    /\ Range(attempted) \cap {org[j].name : j \in {x \in 1..Len(org) : org[x].archived}} = {}

(* the first page of 100 holds archived repositories only, and the 50 repositories of
   the second page were all listed and fetched *)
C9_Witness ==
    /\ Len(org) = 150
    /\ \A j \in 1..100 : org[j].archived
    /\ pc = "write"
    /\ Len(attempted) = 50
    /\ attempted[1] = 101

(* C2: once outputs/raw_alerts.csv exists, no step of any run issues a network request
   or changed the checkpoint, whatever the remote holds by then. *)
C2_SkipWhenCheckpointExists ==
    [][rawExists => (netCalls' = netCalls /\ rawFile' = rawFile /\ rawExists')]_vars

(* a second run skipped extraction after the remote had changed *)
C2_Witness ==
    /\ run = 2
    /\ changed
    /\ pc = "agg"
    /\ rawExists
    /\ netCalls > 0
    /\ ret = NoRet

RECURSIVE Concat(_)
Concat(ss) == IF ss = <<>> THEN <<>> ELSE Head(ss) \o Concat(Tail(ss))

(* the fetch of a repository completes: none of the pages it requests fails *)
FetchOk(repo) ==
    \A p \in 1..(CeilDiv(Len(RemoteAlerts(repo)), 100) + 1) :
       StatusOf("alerts", repo, p) = 200

(* the alerts the checkpoint must hold: those of the listed repositories whose fetch
   completes, in list order, each tagged with its repository *)
ExpectedAlerts ==
    Concat([k \in 1..Len(repositories) |->
              IF FetchOk(repositories[k])
              THEN [m \in 1..Len(RemoteAlerts(repositories[k])) |->
                      [repository |-> repositories[k]] @@ RemoteAlerts(repositories[k])[m]]
              ELSE <<>>])

(* C3: a failing fetch never aborts the run: every listed repository is attempted
   once, in list order, the checkpoint is written afterwards, and it holds exactly
   the alerts of the repositories whose fetch completed, each tagged with its
   repository; a repository whose fetch failed on any page contributes none. *)
C3_FetchFailuresSkipped ==
    /\ (pc \in {"agg", "sql"} /\ ret.fn # "none") =>
         /\ attempted = repositories
         /\ rawExists
         /\ rawFile = ToCsv(JsonNormalize(ExpectedAlerts))
         /\ [k \in 1..Len(caught) |-> caught[k].repo]
              = SelectSeq(repositories, LAMBDA r : ~FetchOk(r))
         /\ \A l \in 1..Len(rawFile.lines) :
              \E k \in 1..Len(repositories) :
                 /\ FetchOk(repositories[k])
                 /\ rawFile.lines[l][Len(FlatColumns)] = Some(repositories[k])
    /\ (pc = "idle" /\ ret.fn = "fetch") => exits[Len(exits)].phase = "agg"

(* one repository failed on its second page after a first page with an alert, another
   was fetched, and the checkpoint holds the alerts of the other only *)
C3_Witness ==
    /\ pc = "agg"
    /\ Len(caught) = 1
    /\ Len(RemoteAlerts(caught[1].repo)) > 0
    /\ StatusOf("alerts", caught[1].repo, 1) = 200
    /\ StatusOf("alerts", caught[1].repo, 2) # 200
    /\ Len(repositories) = 2
    /\ Len(rawFile.lines) > 0

(* C4: a non-success answer to any page of the repository listing ends the lister
   with an error carrying the HTTP status and reason and no partial list; the run
   ends there, before any alert is fetched and without a checkpoint, and the next
   run starts extraction again. *)
C4_ListingFailureAborts ==
    /\ (ret.fn = "list" /\ ret.error # None) =>
         /\ pc = "idle"
         /\ ret.items = <<>> /\ repositories = <<>>
         /\ attempted = <<>> /\ alerts = <<>>
         /\ ~rawExists
         /\ ret.error[1].status \in {403, 500}
         /\ ret.error[1].reason = Reason(ret.error[1].status)
         /\ ~changed => ret.error[1].status = StatusOf("repos", 0, ret.requests)
         /\ exits[Len(exits)] =
              [status |-> "failed", phase |-> "list", error |-> ret.error[1]]
    /\ pc \in {"loop", "fetch", "write"} =>
         \A p \in 1..(CeilDiv(Len(org), 100) + 1) : StatusOf("repos", 0, p) = 200
    /\ (pc = "extract" /\ run >= 2 /\ exits[run - 1].phase = "list") => ~rawExists

(* the listing failed on its second page, after a first page of names *)
C4_Witness ==
    /\ pc = "idle"
    /\ ret.fn = "list"
    /\ ret.error # None
    /\ ret.requests = 2
    /\ repos # <<>>
    /\ ~rawExists

(* a run found (or wrote) a checkpoint without columns *)
EmptyCheckpoint == rawExists /\ rawFile.header = <<>>

(* C10: every run whose extraction returns goes on to the aggregation.  A run whose
   listing succeeds and collects no alert still writes the checkpoint, with none of
   the expected columns; the aggregation of that run and of every later run fails,
   and no later run issues a request or rewrites the checkpoint. *)
C10_Inv ==
    /\ \A k \in 1..Len(exits) : exits[k].phase \in {"list", "agg"}
    /\ (pc = "idle" /\ run >= 1) =>
         /\ Len(exits) = run
         /\ ~(ret.fn = "list" /\ ret.error # None) => exits[run].phase = "agg"
    /\ (pc \in {"agg", "sql"} /\ ret.fn # "none" /\ alerts = <<>>) =>
         /\ EmptyCheckpoint
         /\ Range(ExpectedColumns) \cap Range(rawFile.header) = {}
    /\ EmptyCheckpoint =>
         /\ pc # "sql"
         /\ (pc = "idle" /\ run >= 1) =>
              exits[Len(exits)] = [status |-> "failed", phase |-> "agg",
                                   error |-> [type |-> "EmptyDataError"]]

C10_EmptyCheckpointSticks ==
    /\ []C10_Inv
    /\ [][EmptyCheckpoint =>
            (netCalls' = netCalls /\ rawFile' = rawFile /\ rawExists')]_vars

(* two runs failed in the aggregation over a checkpoint without columns, the second
   without a request although a live repository had gained an alert by then *)
C10_Witness ==
    /\ pc = "idle"
    /\ run = 2
    /\ Len(exits) = 2
    /\ exits[1] = exits[2]
    /\ exits[2].phase = "agg" /\ exits[2].status = "failed"
    /\ EmptyCheckpoint
    /\ changed
    /\ \E k \in 1..Len(org) : ~org[k].archived /\ org[k].alerts # <<>>
    /\ ret = NoRet

----------------------------------------------------------------------------
(* Properties of the reports *)

(* the reports on disk are those of a completed aggregation *)
ReportsWritten == exits # <<>> /\ exits[Len(exits)].status = "ok"

Critical == reports.critical_alerts.rows

(* the alert, as the API served it, behind a row of a report *)
RawOf(row) == RemoteAlerts(row.repository[1])[row.number[1]]

(* the state of an alert after normalisation *)
Normalized(a) == IF a.dismissed_at # None THEN "dismissed" ELSE a.state

IsCritical(a) == a.security_advisory.severity = Some("critical")

MaxOf(vals) == CHOOSE v \in vals : \A w \in vals : w <= v

(* the rows of critical_alerts.csv of one repository whose alert was served with
   dismissed_at set (or not) and a given state *)
CriticalRowsOf(repository, dismissed, st) ==
    {k \in 1..Len(Critical) :
       /\ Critical[k].repository = repository
       /\ (RawOf(Critical[k]).dismissed_at # None) = dismissed
       /\ RawOf(Critical[k]).state = st}

OpenRows(repository) == CriticalRowsOf(repository, FALSE, "open")
FixedRows(repository) == CriticalRowsOf(repository, FALSE, "fixed")
DismissedRows(repository) ==
    {k \in 1..Len(Critical) :
       /\ Critical[k].repository = repository
       /\ (RawOf(Critical[k]).dismissed_at # None \/ RawOf(Critical[k]).state = "dismissed")}

(* C5: in every report an alert with a non-null dismissed_at counts as dismissed: its
   row of critical_alerts.csv has state dismissed, the count reports count it under
   dismissed and never under open or fixed, and alerts_by_date.csv is built from the
   other alerts only. *)
C5_DismissedNormalized ==
    ReportsWritten =>
      /\ \A k \in 1..Len(Critical) :
           RawOf(Critical[k]).dismissed_at # None => Critical[k].state = Some("dismissed")
      /\ \A k \in 1..Len(reports.all_critical_alert_count.rows) :
           LET c == reports.all_critical_alert_count.rows[k]
           IN  /\ c.open = Some(Cardinality(OpenRows(c.repository)))
               /\ c.fixed = Some(Cardinality(FixedRows(c.repository)))
               /\ c.dismissed = Some(Cardinality(DismissedRows(c.repository)))
      /\ \A k \in 1..Len(reports.open_critical_alert_count.rows) :
           LET c == reports.open_critical_alert_count.rows[k]
           IN  c.open = Some(Cardinality(OpenRows(c.repository)))
      /\ \A k \in 1..Len(reports.fixed_critical_alert_count.rows) :
           LET c == reports.fixed_critical_alert_count.rows[k]
           IN  c.fixed = Some(Cardinality(FixedRows(c.repository)))
      /\ \A k \in 1..Len(reports.dismissed_critical_alert_count.rows) :
           LET c == reports.dismissed_critical_alert_count.rows[k]
           IN  c.dismissed = Some(Cardinality(DismissedRows(c.repository)))
      /\ \A k \in 1..Len(reports.alerts_by_date.rows) :
           LET d == reports.alerts_by_date.rows[k]
               from == {j \in 1..Len(Critical) :
                          /\ Critical[j].ghsa_id = d.ghsa_id
                          /\ RawOf(Critical[j]).dismissed_at = None
                          /\ RawOf(Critical[j]).state = "open"}
           IN  /\ from # {}
               /\ d.created_at = Some(MaxOf({RawOf(Critical[j]).created_at : j \in from}))

(* a critical alert served as open with dismissed_at set is reported as dismissed,
   beside an open alert of the same repository that reaches alerts_by_date.csv *)
C5_Witness ==
    /\ ReportsWritten
    /\ \E k \in 1..Len(Critical) :
         /\ RawOf(Critical[k]).state = "open"
         /\ RawOf(Critical[k]).dismissed_at # None
         /\ IsCritical(RawOf(Critical[k]))
         /\ Critical[k].state = Some("dismissed")
         /\ OpenRows(Critical[k].repository) # {}
    /\ reports.alerts_by_date.rows # <<>>
    /\ reports.dismissed_critical_alert_count.rows # <<>>

(* the alerts the remote serves, as <<repository index, alert index>> *)
Served ==
    UNION {{<<k, m>> : m \in 1..Len(org[k].alerts)} :
           k \in {x \in 1..Len(org) : ~org[x].archived}}

AlertAt(p) == org[p[1]].alerts[p[2]]
RepoAt(p) == org[p[1]].name

(* the critical alerts of a repository in a normalised state *)
CriticalAlertsOf(repo, st) ==
    {p \in Served : /\ RepoAt(p) = repo
                    /\ IsCritical(AlertAt(p))
                    /\ Normalized(AlertAt(p)) = st}

(* the open critical alerts that reference an advisory *)
OpenCriticalFor(g) ==
    {p \in Served : /\ AlertAt(p).security_advisory.ghsa_id = g
                    /\ IsCritical(AlertAt(p))
                    /\ Normalized(AlertAt(p)) = "open"}

CountReportOf(st) ==
    CASE st = "open" -> reports.open_critical_alert_count
      [] st = "dismissed" -> reports.dismissed_critical_alert_count
      [] OTHER -> reports.fixed_critical_alert_count

NoNullSeverity == \A p \in Served : AlertAt(p).security_advisory.severity # None

(* C6: critical_alerts.csv holds no row whose severity is anything but critical, a
   missing severity included, and has no severity column; the count reports and
   alerts_by_date.csv are fed by critical alerts only. *)
C6_OnlyCritical ==
    ReportsWritten =>
      /\ "severity" \notin Range(reports.critical_alerts.header)
      /\ \A k \in 1..Len(Critical) :
           /\ "severity" \notin DOMAIN Critical[k]
           /\ IsCritical(RawOf(Critical[k]))
      /\ \A k \in 1..Len(reports.all_critical_alert_count.rows) :
           LET c == reports.all_critical_alert_count.rows[k]
           IN  c.open[1] + c.dismissed[1] + c.fixed[1]
                 = Cardinality({p \in Served : /\ Some(RepoAt(p)) = c.repository
                                               /\ IsCritical(AlertAt(p))})
      /\ \A k \in 1..Len(reports.alerts_by_date.rows) :
           \E p \in Served :
              /\ IsCritical(AlertAt(p))
              /\ Some(AlertAt(p).security_advisory.ghsa_id)
                   = reports.alerts_by_date.rows[k].ghsa_id

(* C6 holds of every table in which no severity is missing *)
C6_WithoutNullSeverity == NoNullSeverity => C6_OnlyCritical

(* C7: every repository R with a critical alert has exactly one row in
   all_critical_alert_count.csv, with the numbers of R's critical alerts that are
   open, dismissed and fixed after normalisation (0 for none), and the report of a
   state lists R exactly when R's count for that state is above zero. *)
C7_PivotCounts ==
    ReportsWritten =>
      \A k \in 1..Len(org) :
         LET R == org[k].name
             all == reports.all_critical_alert_count.rows
             mine == {j \in 1..Len(all) : all[j].repository = Some(R)}
         IN  (\E st \in {"open", "dismissed", "fixed"} : CriticalAlertsOf(R, st) # {}) =>
               /\ Cardinality(mine) = 1
               /\ \A j \in mine :
                    /\ all[j].open = Some(Cardinality(CriticalAlertsOf(R, "open")))
                    /\ all[j].dismissed = Some(Cardinality(CriticalAlertsOf(R, "dismissed")))
                    /\ all[j].fixed = Some(Cardinality(CriticalAlertsOf(R, "fixed")))
               /\ \A st \in {"open", "dismissed", "fixed"} :
                    (\E j \in 1..Len(CountReportOf(st).rows) :
                        CountReportOf(st).rows[j].repository = Some(R))
                      <=> Cardinality(CriticalAlertsOf(R, st)) > 0

(* C7 holds of every table in which no severity is missing *)
C7_WithoutNullSeverity == NoNullSeverity => C7_PivotCounts

(* C8: alerts_by_date.csv has exactly one row for each advisory referenced by an open
   critical alert and none for any other advisory, the row's created_at is the latest
   created_at of those alerts, and the rows are in descending order of it. *)
C8_AlertsByDate ==
    ReportsWritten =>
      LET rows == reports.alerts_by_date.rows
          ids == {AlertAt(p).security_advisory.ghsa_id :
                    p \in {q \in Served : /\ IsCritical(AlertAt(q))
                                          /\ Normalized(AlertAt(q)) = "open"}}
      IN  /\ {rows[j].ghsa_id : j \in 1..Len(rows)} = {Some(g) : g \in ids}
          /\ Len(rows) = Cardinality(ids)
          /\ \A j \in 1..Len(rows) :
               /\ OpenCriticalFor(rows[j].ghsa_id[1]) # {}
               /\ rows[j].created_at
                    = Some(MaxOf({AlertAt(p).created_at :
                                    p \in OpenCriticalFor(rows[j].ghsa_id[1])}))
          /\ \A j \in 1..(Len(rows) - 1) :
               rows[j].created_at[1] >= rows[j + 1].created_at[1]

(* C8 holds of every table in which no severity is missing *)
C8_WithoutNullSeverity == NoNullSeverity => C8_AlertsByDate

(* a table without a missing severity in which a repository has an open and a fixed
   critical alert and none dismissed *)
C7_Example ==
    /\ ReportsWritten
    /\ NoNullSeverity
    /\ \E j \in 1..Len(reports.all_critical_alert_count.rows) :
         LET c == reports.all_critical_alert_count.rows[j]
         IN  c.open[1] >= 1 /\ c.dismissed = Some(0) /\ c.fixed[1] >= 1

(* a table without a missing severity in which two open critical alerts of one
   advisory were created at different times *)
C8_Example ==
    /\ ReportsWritten
    /\ NoNullSeverity
    /\ \E g \in {1, 2} :
         /\ Cardinality(OpenCriticalFor(g)) >= 2
         /\ Cardinality({AlertAt(p).created_at : p \in OpenCriticalFor(g)}) = 2

====
